---- MODULE Spec2Model ----
(***************************************************************************)
(* Model of the tree-node upload server (the root app.js, kept here as     *)
(* src/unnamed/part_000): POST /api/upload, GET /api/tree/:id and          *)
(* GET /api/image/:filename, over the uploads directory (the Blob Store)   *)
(* and the trees table (the Metadata Store); and of the two functions the  *)
(* browser applies to an image before upload, compressToWebP and           *)
(* analyzeImage.                                                           *)
(*                                                                         *)
(* Node runs every JavaScript callback to completion, with the microtasks  *)
(* it queues, before the next callback starts.  One action of the model is *)
(* therefore one callback: the arrival of a request up to its first await, *)
(* the completion of one sharp pipeline together with the continuation of  *)
(* Promise.all it releases, the execution of one SQL statement by sqlite,  *)
(* and the callback of that statement.                                     *)
(***************************************************************************)
EXTENDS Integers, Sequences, FiniteSets, TLC

VARIABLES
    now,        \* the clock read by Date.now() and CURRENT_TIMESTAMP
    pc,         \* per upload request: where its handler stands
    files,      \* per upload request: req.files, as accepted by multer
    body,       \* per upload request: req.body (primary, accent, light)
    names,      \* per upload request: the uniqueName of each file, in call order
    st,         \* per upload request: the state of each compressAndSaveImage promise
    finished,   \* per upload request: the file indices in the order their promises settled
    treeId,     \* per upload request: the uuidv4() it drew
    dbErr,      \* per upload request: the err handed to the db.run callback
    imageFilenames, \* per upload request: the value of await Promise.all(...)
    resp,       \* per upload request: the response sent
    blobs,      \* the uploads directory: file name -> what was written there
    db,         \* the trees table: id -> row
    owner,      \* history: id -> the request whose INSERT created the row
    lastGet,    \* the response to the last retrieval request served
    limiter,    \* the store of uploadLimiter: source -> its hits and their reset time
    admitted,   \* history: source -> the times at which uploadLimiter let a request pass
    img,        \* in the browser: the image handed to compressToWebP or analyzeImage
    result      \* in the browser: what that function made of it

vars == <<now, pc, files, body, names, st, finished, treeId, dbErr,
          imageFilenames, resp, blobs, db, owner, lastGet, limiter, admitted,
          img, result>>

-----------------------------------------------------------------------------
(* Bounds of the model *)

MaxReqs == 2
MaxFiles == 2
MaxClock == 0
MaxIds == 2
MaxTotalFiles == 3

Reqs == 1..MaxReqs

-----------------------------------------------------------------------------
(* Configuration of the server *)

\* upload.array('files', 20)
MaxCount == 20

\* limits: { fileSize: 10 * 1024 * 1024 }
FileSizeLimit == 10 * 1024 * 1024

allowedMimes == {"image/jpeg", "image/png", "image/gif", "image/webp"}

\* rateLimit({ windowMs: 15 * 60 * 1000, max: 50, message: ... })
windowMs == 15 * 60 * 1000
max == 50

\* The value of a multipart text field that the client did not send.
Undefined == "<undefined>"

-----------------------------------------------------------------------------
(* The inputs the model draws requests from *)

\* A photograph of 6 MB.
Jpeg == [mimetype |-> "image/jpeg", size |-> 6 * 1024 * 1024, readable |-> TRUE]
\* An allowed MIME type on bytes sharp cannot decode.
Spoofed == [mimetype |-> "image/png", size |-> 2048, readable |-> FALSE]
Pdf == [mimetype |-> "application/pdf", size |-> 2048, readable |-> TRUE]
Huge == [mimetype |-> "image/jpeg", size |-> FileSizeLimit + 1, readable |-> TRUE]

FileKinds == {Jpeg, Spoofed, Pdf, Huge}

SeqsUpTo(S, n) == UNION {[1..k -> S] : k \in 0..n}

\* Batches of at most MaxFiles files of any kind, and one batch over the cap.
Batches == SeqsUpTo(FileKinds, MaxFiles) \cup {[i \in 1..(MaxCount + 1) |-> Jpeg]}

Red == [primary |-> "#ff0000", accent |-> "#00ff00", light |-> "#0000ff"]
Gold == [primary |-> "#ffd700", accent |-> "#ff0000", light |-> "#ffffff"]

Bodies == {Red, Gold,
           [Red EXCEPT !.light = Undefined],
           [Gold EXCEPT !.accent = ""]}

\* Values of Math.random().toString(36).substring(2, 8): up to six characters
\* of [0-9a-z]; Math.random() = 0 gives "0", of which nothing is left.
RandSuffixes == {<< >>, <<"k">>}

Bases == {<<"http://tree.example">>}

\* The source of a request as the limiter keys it (req.ip).
Home == "203.0.113.7"
Sources == {Home, "198.51.100.9"}

-----------------------------------------------------------------------------
(* Strings are sequences of one-character strings *)

Digit == {"0", "1", "2", "3", "4", "5", "6", "7", "8", "9"}

DigitChar(d) ==
    CASE d = 0 -> "0" [] d = 1 -> "1" [] d = 2 -> "2" [] d = 3 -> "3"
      [] d = 4 -> "4" [] d = 5 -> "5" [] d = 6 -> "6" [] d = 7 -> "7"
      [] d = 8 -> "8" [] d = 9 -> "9"

RECURSIVE NumToString(_)
NumToString(n) ==
    IF n < 10 THEN <<DigitChar(n)>>
    ELSE NumToString(n \div 10) \o <<DigitChar(n % 10)>>

\* `${Date.now()}-${Math.random().toString(36).substring(2, 8)}.webp`
uniqueName(ts, rnd) ==
    NumToString(ts) \o <<"-">> \o rnd \o <<".", "w", "e", "b", "p">>

Zeros(n) == [i \in 1..n |-> "0"]

\* Values of uuidv4(): 8-4-4-4-12 lower-case hexadecimal digits, the version
\* digit 4 and a variant digit among 8, 9, a, b.
Uuid(k) ==
    Zeros(7) \o <<DigitChar(k), "-">> \o Zeros(4) \o <<"-", "4">> \o Zeros(3)
        \o <<"-", "a">> \o Zeros(3) \o <<"-">> \o Zeros(12)

Ids == {Uuid(k) : k \in 1..MaxIds}

\* A response without an id.
NoId == << >>

-----------------------------------------------------------------------------
(* multer and the validation at the head of the upload handler *)

fileFilter(file) == file.mimetype \in allowedMimes

\* multer without limits.
RECURSIVE MulterErrorUnlimited(_, _)
MulterErrorUnlimited(batch, i) ==
    IF i > Len(batch) THEN "NONE"
    ELSE IF i > MaxCount THEN "LIMIT_UNEXPECTED_FILE"
    ELSE IF ~fileFilter(batch[i]) THEN "FILE_FILTER"
    ELSE MulterErrorUnlimited(batch, i + 1)

\* The first file, in stream order, that multer refuses, and the code of the
\* error.  A file beyond the maxCount of upload.array is refused by multer as
\* an unexpected file; limits.files, which raises LIMIT_FILE_COUNT, is not set.
RECURSIVE MulterError(_, _)
MulterError(batch, i) ==
    IF i > Len(batch) THEN "NONE"
    ELSE IF i > MaxCount THEN "LIMIT_UNEXPECTED_FILE"
    ELSE IF ~fileFilter(batch[i]) THEN "FILE_FILTER"
    ELSE IF batch[i].size > FileSizeLimit THEN "LIMIT_FILE_SIZE"
    ELSE MulterError(batch, i + 1)

\* A test for the missing field only.
MissingOnly(v) == v = Undefined

\* !primary: a field that was not sent, or the empty string.
Falsy(v) == v = Undefined \/ v = ""

\* The outcome of the middleware chain and of the two checks of the handler.
Validate(batch, b) ==
    LET e == MulterError(batch, 1) IN
    IF e # "NONE" THEN e
    ELSE IF Len(batch) = 0 THEN "NO_FILES"
    ELSE IF Falsy(b.primary) \/ Falsy(b.accent) \/ Falsy(b.light) THEN "NO_COLORS"
    ELSE "OK"

ErrorMessage(e) ==
    CASE e = "LIMIT_FILE_SIZE" -> "File too large (max 10MB)"
      [] e = "LIMIT_FILE_COUNT" -> "Too many files (max 20)"
      [] e = "LIMIT_UNEXPECTED_FILE" -> "Unexpected field"
      [] e = "FILE_FILTER" -> "Only JPEG, PNG, GIF, and WebP images are allowed"
      [] e = "NO_FILES" -> "No files uploaded"
      [] e = "NO_COLORS" -> "Missing color configuration"

Response(status, error, id) == [status |-> status, error |-> error, id |-> id]
NoResponse == Response(0, "", NoId)

-----------------------------------------------------------------------------
(* JSON text is modelled as its sequence of tokens *)

JsonStringifyColors(c) ==
    <<"{", "primary", c.primary, "accent", c.accent, "light", c.light, "}">>

JsonParseColors(t) ==
    [primary |-> t[3], accent |-> t[5], light |-> t[7]]

JsonStringifyArray(a) == <<"[">> \o a \o <<"]">>

JsonParseArray(t) == SubSeq(t, 2, Len(t) - 1)

-----------------------------------------------------------------------------
(* State *)

EmptyMap == [x \in {} |-> 0]

Range(f) == {f[x] : x \in DOMAIN f}

NoGet == [kind |-> "none", query |-> << >>, id |-> NoId, filename |-> << >>,
          status |-> 0,
          colors |-> JsonParseColors(JsonStringifyColors(Red)),
          imageUrls |-> << >>, createdAt |-> 0,
          cacheControl |-> "", probed |-> FALSE]

\* No image has been chosen in the browser.
NoImage == [width |-> 0, height |-> 0, data |-> << >>]
NoResult == [kind |-> "none"]

Init ==
    /\ now = 0
    /\ pc = [r \in Reqs |-> "idle"]
    /\ files = [r \in Reqs |-> << >>]
    /\ body = [r \in Reqs |-> Red]
    /\ names = [r \in Reqs |-> << >>]
    /\ st = [r \in Reqs |-> << >>]
    /\ finished = [r \in Reqs |-> << >>]
    /\ treeId = [r \in Reqs |-> NoId]
    /\ dbErr = [r \in Reqs |-> FALSE]
    /\ imageFilenames = [r \in Reqs |-> << >>]
    /\ resp = [r \in Reqs |-> NoResponse]
    /\ blobs = EmptyMap
    /\ db = EmptyMap
    /\ owner = EmptyMap
    /\ lastGet = NoGet
    /\ img = NoImage
    /\ result = NoResult
    /\ limiter = EmptyMap
    /\ admitted = EmptyMap

-----------------------------------------------------------------------------
(* The clock *)

\* Reading the clock (Date.now(), CURRENT_TIMESTAMP): time has not gone back
\* since the last reading.
ReadClock == \E t \in (now..MaxClock) \cup {now} : now' = t

\* The model stops accepting files after MaxTotalFiles of them.
RECURSIVE FilesTaken(_)
FilesTaken(r) == IF r = 0 THEN 0 ELSE Len(names[r]) + FilesTaken(r - 1)

FilesLeft == MaxTotalFiles - FilesTaken(MaxReqs)

-----------------------------------------------------------------------------
(* POST /api/upload *)

\* multer.diskStorage with UPLOADS_DIR as destination, the storage of the
\* server under server/app.js: every file received is written to the uploads
\* directory before the handler runs.
diskStorage(dir, r, batch) ==
    [n \in DOMAIN dir \cup {uniqueName(i, << >>) : i \in DOMAIN batch} |->
        IF n \in DOMAIN dir THEN dir[n] ELSE <<r, 0>>]

\* storage: multer.memoryStorage(): the files stay in memory (file.buffer) and
\* the uploads directory is as it was.
memoryStorage(dir, r, batch) == dir

\* A store that starts a window at every request.
IncrementForgetful(store, key, t) ==
    [k \in DOMAIN store \cup {key} |->
        IF k = key THEN [totalHits |-> 1, resetTime |-> t + windowMs] ELSE store[k]]

\* The memory store of express-rate-limit counts the request under its key:
\* a key it does not hold, or whose window has run out, starts a window of
\* windowMs at this request.
Increment(store, key, t) ==
    LET fresh == key \notin DOMAIN store \/ store[key].resetTime <= t
        entry == IF fresh
                 THEN [totalHits |-> 1, resetTime |-> t + windowMs]
                 ELSE [store[key] EXCEPT !.totalHits = @ + 1]
    IN [k \in DOMAIN store \cup {key} |-> IF k = key THEN entry ELSE store[k]]

\* One more time in a bag of times.
AddTime(bag, t) ==
    [x \in DOMAIN bag \cup {t} |->
        IF x = t THEN (IF t \in DOMAIN bag THEN bag[t] + 1 ELSE 1) ELSE bag[x]]

\* The history of the requests that passed the limiter.
Admit(hist, key, t) ==
    [k \in DOMAIN hist \cup {key} |->
        IF k = key
        THEN AddTime(IF key \in DOMAIN hist THEN hist[key] ELSE EmptyMap, t)
        ELSE hist[k]]

\* The request arrives from the source key.  uploadLimiter counts it and
\* answers 429 beyond max hits in the window; else multer (memory storage) and
\* the two checks of the handler answer 400, or the handler maps
\* compressAndSaveImage over the files.  Each call runs up to its await: it
\* draws its uniqueName and starts sharp.  The calls run back to back, so they
\* read the same Date.now().  Requests are numbered in the order of their
\* arrival.
Arrive(r, key, batch, b) ==
    /\ pc[r] = "idle"
    /\ \A q \in Reqs : q < r => pc[q] # "idle"
    /\ ReadClock
    /\ limiter' = Increment(limiter, key, now')
    /\ IF limiter'[key].totalHits > max
       THEN /\ resp' = [resp EXCEPT ![r] =
                           Response(429, "Too many uploads, please try again later", NoId)]
            /\ pc' = [pc EXCEPT ![r] = "done"]
            /\ UNCHANGED <<files, body, names, st, blobs, admitted>>
       ELSE /\ admitted' = Admit(admitted, key, now')
            /\ LET v == Validate(batch, b) IN
               IF v # "OK"
               THEN /\ resp' = [resp EXCEPT ![r] = Response(400, ErrorMessage(v), NoId)]
                    /\ pc' = [pc EXCEPT ![r] = "done"]
                    /\ UNCHANGED <<files, body, names, st>>
               ELSE /\ Len(batch) <= FilesLeft
                    /\ \E rnd \in [1..Len(batch) -> RandSuffixes] :
                         names' = [names EXCEPT ![r] =
                                      [i \in 1..Len(batch) |-> uniqueName(now', rnd[i])]]
                    /\ files' = [files EXCEPT ![r] = batch]
                    /\ body' = [body EXCEPT ![r] = b]
                    /\ st' = [st EXCEPT ![r] = [i \in 1..Len(batch) |-> "pending"]]
                    /\ pc' = [pc EXCEPT ![r] = "awaiting"]
                    /\ UNCHANGED resp
            /\ blobs' = memoryStorage(blobs, r, batch)
    /\ UNCHANGED <<finished, treeId, dbErr, imageFilenames, db, owner, lastGet>>
    /\ UNCHANGED <<img, result>>

\* The fulfilment values taken in the order in which the promises settled.
ValuesBySettling(values, order) == [k \in 1..Len(order) |-> values[order[k]]]

\* What await Promise.all(compressionPromises) evaluates to: the fulfilment
\* values by position in the input array, not by the order of settling.
PromiseAllValue(values, order) == values

\* Promise.any: fulfilled as soon as one promise of the array is.
AnyFulfilled(states) == \E j \in DOMAIN states : states[j] = "fulfilled"

\* Promise.all(compressionPromises) fulfils when every promise of the array
\* has fulfilled.
AllFulfilled(states) == \A j \in DOMAIN states : states[j] = "fulfilled"

\* toFile(outputPath): the file is created, or replaced when the path exists.
WriteFile(dir, name, content) ==
    [n \in DOMAIN dir \cup {name} |-> IF n = name THEN content ELSE dir[n]]

\* The sharp pipeline of file i succeeds: the blob is on disk and the promise
\* fulfils with uniqueName.  When it is the last one of a request still
\* waiting, Promise.all fulfils and the handler goes on to uuidv4() and db.run.
TranscodeDone(r, i) ==
    /\ i \in DOMAIN st[r]
    /\ st[r][i] = "pending"
    /\ files[r][i].readable
    /\ blobs' = WriteFile(blobs, names[r][i], <<r, i>>)
    /\ st' = [st EXCEPT ![r][i] = "fulfilled"]
    /\ finished' = [finished EXCEPT ![r] = Append(@, i)]
    /\ IF pc[r] = "awaiting" /\ AllFulfilled(st'[r])
       THEN /\ imageFilenames' = [imageFilenames EXCEPT ![r] =
                                     PromiseAllValue(names[r], finished'[r])]
            /\ \E id \in Ids : treeId' = [treeId EXCEPT ![r] = id]
            /\ pc' = [pc EXCEPT ![r] = "inserting"]
       ELSE UNCHANGED <<imageFilenames, treeId, pc>>
    /\ UNCHANGED <<now, files, body, names, dbErr, resp, db, owner, lastGet, limiter, admitted>>
    /\ UNCHANGED <<img, result>>

\* The catch branch of the handler: it answers 500 and does nothing else.
CatchUploadError(r) ==
    /\ resp' = [resp EXCEPT ![r] = Response(500, "Failed to process images", NoId)]
    /\ pc' = [pc EXCEPT ![r] = "done"]

\* The sharp pipeline of file i fails (bytes it cannot decode, or a write the
\* file system refuses): no file is left and the promise rejects.  The first
\* rejection of a request still waiting rejects Promise.all and runs the catch
\* branch; the other pipelines of the request keep running.
TranscodeFail(r, i) ==
    /\ i \in DOMAIN st[r]
    /\ st[r][i] = "pending"
    /\ st' = [st EXCEPT ![r][i] = "rejected"]
    /\ finished' = [finished EXCEPT ![r] = Append(@, i)]
    /\ IF pc[r] = "awaiting"
       THEN CatchUploadError(r)
       ELSE UNCHANGED <<pc, resp>>
    /\ UNCHANGED <<now, files, body, names, treeId, dbErr, imageFilenames,
                   blobs, db, owner, lastGet, limiter, admitted>>
    /\ UNCHANGED <<img, result>>

\* The row sqlite builds for INSERT INTO trees (id, images, colors).
Row(id, filenames, colors, ts) ==
    [id |-> id,
     images |-> JsonStringifyArray(filenames),
     colors |-> JsonStringifyColors(colors),
     created_at |-> ts]

\* A row written in two statements, of which the first gives the id alone.
RowOfIdOnly(r) == Row(treeId[r], << >>, body[r], now')

\* The row of this request: the three values of the statement, and created_at
\* from DEFAULT CURRENT_TIMESTAMP.
NewRow(r) == Row(treeId[r], imageFilenames[r], body[r], now')

\* INSERT on a table with id as PRIMARY KEY: the row is added when the key is new.
InsertRow(table, row) ==
    [k \in DOMAIN table \cup {row.id} |-> IF k = row.id THEN row ELSE table[k]]

\* A table without the key constraint takes any row.
NoConstraint(table, row) == FALSE

\* id TEXT PRIMARY KEY: an INSERT of a key the table holds is refused.
PrimaryKeyConflict(table, row) == row.id \in DOMAIN table

\* sqlite executes the INSERT: it fails on a key already present, it may fail
\* for reasons of its own (disk, lock), and otherwise the row is in the table.
DbRun(r) ==
    /\ pc[r] = "inserting"
    /\ ReadClock
    /\ \/ /\ ~PrimaryKeyConflict(db, NewRow(r))
          /\ db' = InsertRow(db, NewRow(r))
          /\ owner' = [k \in DOMAIN owner \cup {treeId[r]} |->
                          IF k = treeId[r] THEN r ELSE owner[k]]
          /\ dbErr' = [dbErr EXCEPT ![r] = FALSE]
       \/ /\ dbErr' = [dbErr EXCEPT ![r] = TRUE]
          /\ UNCHANGED <<db, owner>>
    /\ pc' = [pc EXCEPT ![r] = "callback"]
    /\ UNCHANGED <<files, body, names, st, finished, treeId,
                   imageFilenames, resp, blobs, lastGet, limiter, admitted>>
    /\ UNCHANGED <<img, result>>

\* if (fs.existsSync(filepath)) fs.unlinkSync(filepath)
Unlink(dir, name) ==
    IF name \in DOMAIN dir
    THEN [n \in DOMAIN dir \ {name} |-> dir[n]]
    ELSE dir

\* A cleanup that stops after the first file.
CleanupFirst(dir, fs) ==
    IF fs = << >> THEN dir ELSE Unlink(dir, Head(fs))

\* A loop without the existsSync test: unlinkSync throws on a name that is not
\* there, which ends the forEach.
RECURSIVE CleanupUntilAbsent(_, _)
CleanupUntilAbsent(dir, fs) ==
    IF fs = << >> THEN dir
    ELSE IF Head(fs) \notin DOMAIN dir THEN dir
    ELSE CleanupUntilAbsent(Unlink(dir, Head(fs)), Tail(fs))

\* imageFilenames.forEach(f => ...unlink...)
RECURSIVE Cleanup(_, _)
Cleanup(dir, fs) ==
    IF fs = << >> THEN dir
    ELSE Cleanup(Unlink(dir, Head(fs)), Tail(fs))

\* The callback of db.run: on err the files are removed and 500 is sent,
\* otherwise the id is sent.
InsertCallback(r) ==
    /\ pc[r] = "callback"
    /\ IF dbErr[r]
       THEN /\ blobs' = Cleanup(blobs, imageFilenames[r])
            /\ resp' = [resp EXCEPT ![r] = Response(500, "Database error", NoId)]
       ELSE /\ resp' = [resp EXCEPT ![r] = Response(200, "", treeId[r])]
            /\ UNCHANGED blobs
    /\ pc' = [pc EXCEPT ![r] = "done"]
    /\ UNCHANGED <<now, files, body, names, st, finished, treeId, dbErr,
                   imageFilenames, db, owner, lastGet, limiter, admitted>>
    /\ UNCHANGED <<img, result>>

-----------------------------------------------------------------------------
(* GET /api/tree/:id *)

\* The ids a client may ask for: those uuidv4() can draw, and one that has
\* not the shape of a UUID.
MalformedId == <<"n", "o", "n", "e">>
IdInputs == Ids \cup {MalformedId}

\* [0-9a-f] under the i flag
HexI == Digit \cup {"a", "b", "c", "d", "e", "f"} \cup {"A", "B", "C", "D", "E", "F"}

\* The pattern without its end anchor.
UuidPrefixed(id) ==
    /\ Len(id) >= 36
    /\ \A i \in 1..36 :
          IF i \in {9, 14, 19, 24} THEN id[i] = "-" ELSE id[i] \in HexI

\* /^[0-9a-f]{8}-[0-9a-f]{4}-[0-9a-f]{4}-[0-9a-f]{4}-[0-9a-f]{12}$/i.test(id)
UuidShaped(id) ==
    /\ Len(id) = 36
    /\ \A i \in 1..36 :
          IF i \in {9, 14, 19, 24} THEN id[i] = "-" ELSE id[i] \in HexI

\* filenames.map(f => `${baseUrl}/api/image/${f}`)
ImageUrls(baseUrl, filenames) ==
    [i \in 1..Len(filenames) |-> baseUrl \o <<"/api/image/">> \o filenames[i]]

\* The response of the handler, given the table and the err of db.get; query
\* is the id asked for and probed tells whether the handler reached db.get.
\* WHERE id = ? compares the text of the id as it is.
ResolveResponse(table, id, baseUrl, err) ==
    IF ~UuidShaped(id)
    THEN [NoGet EXCEPT !.kind = "tree", !.query = id, !.status = 400]
    ELSE IF err
    THEN [NoGet EXCEPT !.kind = "tree", !.query = id, !.status = 500,
                       !.probed = TRUE]
    ELSE IF id \notin DOMAIN table
    THEN [NoGet EXCEPT !.kind = "tree", !.query = id, !.status = 404,
                       !.probed = TRUE]
    ELSE LET row == table[id] IN
         [NoGet EXCEPT !.kind = "tree", !.query = id, !.probed = TRUE,
                       !.id = row.id, !.status = 200,
                       !.colors = JsonParseColors(row.colors),
                       !.imageUrls = ImageUrls(baseUrl, JsonParseArray(row.images)),
                       !.createdAt = row.created_at]

\* A limiter mounted on every route: app.use(uploadLimiter).
LimiterOnEveryRoute(store, t) == Increment(store, Home, t)

\* app.get(path, handler): the two GET routes name no middleware before their
\* handler, so the store of uploadLimiter is as it was.
RetrievalGuard(store, t) == store

Resolve(id, baseUrl, err) ==
    /\ limiter' = RetrievalGuard(limiter, now)
    /\ lastGet' = ResolveResponse(db, id, baseUrl, err)
    /\ UNCHANGED <<now, pc, files, body, names, st, finished, treeId, dbErr,
                   imageFilenames, resp, blobs, db, owner, admitted>>
    /\ UNCHANGED <<img, result>>

-----------------------------------------------------------------------------
(* GET /api/image/:filename *)

Lower == {"a", "b", "c", "d", "e", "f", "g", "h", "i", "j", "k", "l", "m",
          "n", "o", "p", "q", "r", "s", "t", "u", "v", "w", "x", "y", "z"}
Upper == {"A", "B", "C", "D", "E", "F", "G", "H", "I", "J", "K", "L", "M",
          "N", "O", "P", "Q", "R", "S", "T", "U", "V", "W", "X", "Y", "Z"}

\* [a-z0-9] under the i flag
AlnumI == Digit \cup Lower \cup Upper

\* String.prototype.includes
Includes(s, sub) ==
    \E k \in 0..(Len(s) - Len(sub)) : SubSeq(s, k + 1, k + Len(sub)) = sub

\* The check without its third test.
TraversalSlashOnly(filename) ==
    \/ Includes(filename, <<".", ".">>)
    \/ Includes(filename, <<"/">>)

\* filename.includes('..') || filename.includes('/') || filename.includes('\\')
Traversal(filename) ==
    \/ Includes(filename, <<".", ".">>)
    \/ Includes(filename, <<"/">>)
    \/ Includes(filename, <<"\\">>)

\* /^\d+-[a-z0-9]+\.webp$/i.test(filename)
NameShaped(filename) ==
    LET n == Len(filename) IN
    \E k \in 2..(n - 6) :
        /\ \A j \in 1..(k - 1) : filename[j] \in Digit
        /\ filename[k] = "-"
        /\ \A j \in (k + 1)..(n - 5) : filename[j] \in AlnumI
        /\ filename[n - 4] = "."
        /\ filename[n - 3] \in {"w", "W"}
        /\ filename[n - 2] \in {"e", "E"}
        /\ filename[n - 1] \in {"b", "B"}
        /\ filename[n] \in {"p", "P"}

\* Files that exist beside the uploads directory, by their path relative to it
\* (path.join(UPLOADS_DIR, '../database.sqlite') is DB_PATH).
OutsideFiles == {<<".", ".", "/", "d", "b">>}

\* fs.existsSync(path.join(UPLOADS_DIR, filename))
ExistsSync(dir, filename) == filename \in DOMAIN dir \/ filename \in OutsideFiles

\* The response of the handler; probed tells whether it reached fs.existsSync.
StreamBlobResponse(dir, filename) ==
    IF Traversal(filename)
    THEN [NoGet EXCEPT !.kind = "image", !.filename = filename, !.status = 403]
    ELSE IF ~NameShaped(filename)
    THEN [NoGet EXCEPT !.kind = "image", !.filename = filename, !.status = 400]
    ELSE IF ~ExistsSync(dir, filename)
    THEN [NoGet EXCEPT !.kind = "image", !.filename = filename, !.status = 404,
                       !.probed = TRUE]
    ELSE [NoGet EXCEPT !.kind = "image", !.filename = filename, !.status = 200,
                       !.probed = TRUE,
                       !.cacheControl = "public, max-age=31536000"]

\* A route that removes the file once it has served it.
SendAndRemove(dir, filename) == [n \in DOMAIN dir \ {filename} |-> dir[n]]

\* res.sendFile(filepath) reads the file; the directory is as it was.
sendFile(dir, filename) == dir

StreamBlob(filename) ==
    /\ limiter' = RetrievalGuard(limiter, now)
    /\ lastGet' = StreamBlobResponse(blobs, filename)
    /\ blobs' = IF lastGet'.status = 200 THEN sendFile(blobs, filename) ELSE blobs
    /\ UNCHANGED <<now, pc, files, body, names, st, finished, treeId, dbErr,
                   imageFilenames, resp, db, owner, admitted>>
    /\ UNCHANGED <<img, result>>

-----------------------------------------------------------------------------
(* The server under concurrent requests *)

Next ==
    \/ \E r \in Reqs, batch \in Batches, b \in Bodies : Arrive(r, Home, batch, b)
    \/ \E r \in Reqs, i \in 1..MaxFiles : TranscodeDone(r, i)
    \/ \E r \in Reqs, i \in 1..MaxFiles : TranscodeFail(r, i)
    \/ \E r \in Reqs : DbRun(r)
    \/ \E r \in Reqs : InsertCallback(r)
    \/ \E id \in IdInputs, b \in Bases, err \in BOOLEAN : Resolve(id, b, err)

Spec == Init /\ [][Next]_vars

\* The callbacks of the uploads in progress.  A sharp pipeline ends, sqlite
\* executes the statement it was given and calls back: none of them waits
\* for a client.
UploadStep ==
    \/ \E r \in Reqs, i \in 1..MaxFiles : TranscodeDone(r, i)
    \/ \E r \in Reqs, i \in 1..MaxFiles : TranscodeFail(r, i)
    \/ \E r \in Reqs : DbRun(r)
    \/ \E r \in Reqs : InsertCallback(r)

SpecFair == Spec /\ WF_vars(UploadStep)

-----------------------------------------------------------------------------
(* GET /api/image/:filename over the names a client can send *)

Concat4(A, B, C, D) == {a \o b \o c \o d : a \in A, b \in B, c \in C, d \in D}

\* Names put together from pieces that meet and miss each test of the handler.
Filenames ==
    Concat4({<< >>, <<"7">>, <<"4", "2">>, <<"x">>, <<".", ".">>, <<"/">>},
            {<< >>, <<"-">>},
            {<< >>, <<"k">>, <<"K", "9">>, <<"_">>, <<"\\">>, <<".", ".">>, <<"-">>},
            {<<".", "w", "e", "b", "p">>, <<".", "W", "e", "B", "p">>,
             <<".", "j", "p", "g">>, <<"w", "e", "b", "p">>,
             <<".", "w", "e", "b", "p", "/">>, <<".", "w", "e", "b", "p", "x">>,
             << >>})
    \cup OutsideFiles

\* What the uploads directory may hold when the server runs: blobs of earlier
\* uploads, and files that the server of server/app.js, which shares the
\* directory, stored under `${Date.now()}-${random}${ext}`.
StoredNames ==
    {uniqueName(7, <<"k">>), uniqueName(42, << >>),
     <<"7", "-", "k", ".", "j", "p", "g">>, <<"4", "2", "-", "k">>}

InitStream ==
    /\ now = 0
    /\ pc = [r \in Reqs |-> "idle"]
    /\ files = [r \in Reqs |-> << >>]
    /\ body = [r \in Reqs |-> Red]
    /\ names = [r \in Reqs |-> << >>]
    /\ st = [r \in Reqs |-> << >>]
    /\ finished = [r \in Reqs |-> << >>]
    /\ treeId = [r \in Reqs |-> NoId]
    /\ dbErr = [r \in Reqs |-> FALSE]
    /\ imageFilenames = [r \in Reqs |-> << >>]
    /\ resp = [r \in Reqs |-> NoResponse]
    /\ \E S \in SUBSET StoredNames : blobs = [n \in S |-> <<0, 0>>]
    /\ db = EmptyMap
    /\ owner = EmptyMap
    /\ lastGet = NoGet
    /\ img = NoImage
    /\ result = NoResult
    /\ limiter = EmptyMap
    /\ admitted = EmptyMap

\* One request is served in each run.
NextStream == \E f \in Filenames : lastGet.kind = "none" /\ StreamBlob(f)

SpecStream == InitStream /\ [][NextStream]_vars

-----------------------------------------------------------------------------
(* The two retrieval routes over a table and a directory that earlier uploads
   filled *)

\* An id of uuidv4() written in upper case.
UpperUuid(k) == [i \in 1..36 |-> IF Uuid(k)[i] = "a" THEN "A" ELSE Uuid(k)[i]]

\* Uuid(k) with the character at position p replaced by c.
WithChar(k, p, c) == [i \in 1..36 |-> IF i = p THEN c ELSE Uuid(k)[i]]

\* The ids a client may send: ids of rows, ids of no row, the same in upper
\* case, and texts that miss the pattern in one way each.
IdCandidates ==
    {Uuid(k) : k \in 1..(MaxIds + 1)}
    \cup {UpperUuid(1),
          Uuid(1) \o <<"0">>,
          <<"0">> \o Uuid(1),
          Tail(Uuid(1)),
          WithChar(1, 1, "g"),
          WithChar(2, 36, "G"),
          WithChar(1, 9, "0"),
          WithChar(1, 10, "-"),
          WithChar(2, 24, "_"),
          SelectSeq(Uuid(1), LAMBDA c : c # "-"),
          Uuid(2) \o <<"'">>,
          <<"1">>,
          MalformedId}

\* The rows an earlier upload may have left under an id.
StoredRows(id) ==
    {Row(id, <<uniqueName(7, <<"k">>)>>, Red, 0),
     Row(id, <<uniqueName(42, << >>), uniqueName(7, <<"k">>)>>, Gold, 0)}

StoredTables ==
    UNION {{t \in [S -> UNION {StoredRows(id) : id \in S}] :
                \A id \in S : t[id] \in StoredRows(id)} : S \in SUBSET Ids}

\* The names asked of the image route here.
RetrievalNames ==
    StoredNames \cup OutsideFiles
        \cup {uniqueName(8, <<"k">>), <<"7", "-", "k", ".", "W", "E", "B", "P">>}

InitRetrieval ==
    /\ now = 0
    /\ pc = [r \in Reqs |-> "idle"]
    /\ files = [r \in Reqs |-> << >>]
    /\ body = [r \in Reqs |-> Red]
    /\ names = [r \in Reqs |-> << >>]
    /\ st = [r \in Reqs |-> << >>]
    /\ finished = [r \in Reqs |-> << >>]
    /\ treeId = [r \in Reqs |-> NoId]
    /\ dbErr = [r \in Reqs |-> FALSE]
    /\ imageFilenames = [r \in Reqs |-> << >>]
    /\ resp = [r \in Reqs |-> NoResponse]
    /\ \E S \in SUBSET StoredNames : blobs = [n \in S |-> <<0, 0>>]
    /\ db \in StoredTables
    /\ owner = EmptyMap
    /\ lastGet = NoGet
    /\ img = NoImage
    /\ result = NoResult
    /\ limiter = EmptyMap
    /\ admitted = EmptyMap

NextRetrieval ==
    \/ \E id \in IdCandidates, b \in Bases, err \in BOOLEAN : Resolve(id, b, err)
    \/ \E f \in RetrievalNames : StreamBlob(f)

SpecRetrieval == InitRetrieval /\ [][NextRetrieval]_vars

-----------------------------------------------------------------------------
(* The server around the limit of uploadLimiter *)

\* The hits the limiter holds for Home when the requests of the model arrive:
\* so many that the next requests meet the limit.
HitsSoFar == {max - 1, max}

\* The instants to which the clock is let run between requests.
Instants == {windowMs - 1, windowMs}

LimiterBatches == {<< >>, <<Jpeg>>}

LimiterNames == {uniqueName(windowMs, << >>)}

\* The server after h requests of Home that carried no file (each counted by
\* the limiter and answered 400): the first at time 0, the others at time t1.
InitLimiter ==
    /\ pc = [r \in Reqs |-> "idle"]
    /\ files = [r \in Reqs |-> << >>]
    /\ body = [r \in Reqs |-> Red]
    /\ names = [r \in Reqs |-> << >>]
    /\ st = [r \in Reqs |-> << >>]
    /\ finished = [r \in Reqs |-> << >>]
    /\ treeId = [r \in Reqs |-> NoId]
    /\ dbErr = [r \in Reqs |-> FALSE]
    /\ imageFilenames = [r \in Reqs |-> << >>]
    /\ resp = [r \in Reqs |-> NoResponse]
    /\ blobs = EmptyMap
    /\ db = EmptyMap
    /\ owner = EmptyMap
    /\ lastGet = NoGet
    /\ img = NoImage
    /\ result = NoResult
    /\ \E h \in HitsSoFar, t1 \in {0, windowMs - 1} :
          /\ now = t1
          /\ limiter = [k \in {Home} |-> [totalHits |-> h, resetTime |-> 0 + windowMs]]
          /\ admitted = [k \in {Home} |->
                            IF t1 = 0 THEN [t \in {0} |-> h]
                            ELSE [t \in {0, t1} |-> IF t = 0 THEN 1 ELSE h - 1]]

\* Time passes while no callback runs.
Wait ==
    /\ \E t \in Instants : t > now /\ now' = t
    /\ UNCHANGED <<pc, files, body, names, st, finished, treeId, dbErr,
                   imageFilenames, resp, blobs, db, owner, lastGet, limiter,
                   admitted>>
    /\ UNCHANGED <<img, result>>

NextLimiter ==
    \/ \E r \in Reqs, key \in Sources, batch \in LimiterBatches :
          Arrive(r, key, batch, Red)
    \/ \E r \in Reqs, i \in 1..MaxFiles : TranscodeDone(r, i)
    \/ \E r \in Reqs : DbRun(r)
    \/ \E r \in Reqs : InsertCallback(r)
    \/ Wait
    \/ \E id \in Ids, b \in Bases : Resolve(id, b, FALSE)
    \/ \E f \in LimiterNames : StreamBlob(f)

SpecLimiter == InitLimiter /\ [][NextLimiter]_vars

-----------------------------------------------------------------------------
(* The validation of one upload over files and palettes at and around each
   limit *)

Gif == [mimetype |-> "image/gif", size |-> 2048, readable |-> TRUE]
Png == [mimetype |-> "image/png", size |-> 1, readable |-> TRUE]
\* A file of exactly limits.fileSize bytes.
AtLimit == [mimetype |-> "image/webp", size |-> FileSizeLimit, readable |-> TRUE]
Svg == [mimetype |-> "image/svg+xml", size |-> 2048, readable |-> TRUE]
Empty == [mimetype |-> "image/jpeg", size |-> 0, readable |-> FALSE]

ValidationKinds == FileKinds \cup {Gif, Png, AtLimit, Svg, Empty}

\* Every kind of file alone, batches of files at and over each limit, and one
\* batch over the cap.
ValidationBatches ==
    SeqsUpTo(ValidationKinds, 1)
        \cup SeqsUpTo({Png, Gif, AtLimit, Huge, Pdf}, MaxFiles)
        \cup {[i \in 1..(MaxCount + 1) |-> Jpeg]}

\* The palette whole, and with each field missing or empty.
ValidationBodies ==
    {Red, Gold}
    \cup {[Red EXCEPT ![f] = v] : f \in {"primary", "accent", "light"},
                                  v \in {Undefined, ""}}

NextValidate ==
    \E batch \in ValidationBatches, b \in ValidationBodies : Arrive(1, Home, batch, b)

SpecValidate == Init /\ [][NextValidate]_vars

-----------------------------------------------------------------------------
(* The rollback of one upload over any directory and any list of names *)

RollbackNames == {uniqueName(7, <<"k">>), uniqueName(7, << >>), uniqueName(42, <<"k">>)}

\* Lists of names with names that repeat and names that no file has.
RollbackLists == SeqsUpTo(RollbackNames, MaxFiles + 1) \ {<< >>}

\* Request 1 stands at the callback of a db.run that failed; the directory
\* holds any of the names, written by this or by an earlier request.
InitRollback ==
    /\ now = 0
    /\ \E fs \in RollbackLists :
          /\ names = [r \in Reqs |-> IF r = 1 THEN fs ELSE << >>]
          /\ imageFilenames = [r \in Reqs |-> IF r = 1 THEN fs ELSE << >>]
          /\ files = [r \in Reqs |-> IF r = 1 THEN [i \in 1..Len(fs) |-> Jpeg] ELSE << >>]
          /\ st = [r \in Reqs |-> IF r = 1 THEN [i \in 1..Len(fs) |-> "fulfilled"] ELSE << >>]
          /\ finished = [r \in Reqs |-> IF r = 1 THEN [i \in 1..Len(fs) |-> i] ELSE << >>]
    /\ pc = [r \in Reqs |-> IF r = 1 THEN "callback" ELSE "idle"]
    /\ body = [r \in Reqs |-> Red]
    /\ treeId = [r \in Reqs |-> IF r = 1 THEN Uuid(1) ELSE NoId]
    /\ dbErr = [r \in Reqs |-> r = 1]
    /\ resp = [r \in Reqs |-> NoResponse]
    /\ \E S \in SUBSET RollbackNames : blobs = [n \in S |-> <<0, 0>>]
    /\ db = EmptyMap
    /\ owner = EmptyMap
    /\ lastGet = NoGet
    /\ img = NoImage
    /\ result = NoResult
    /\ limiter = [k \in {Home} |-> [totalHits |-> 1, resetTime |-> 0 + windowMs]]
    /\ admitted = [k \in {Home} |-> [t \in {0} |-> 1]]

NextRollback == InsertCallback(1)

SpecRollback == InitRollback /\ [][NextRollback]_vars

-----------------------------------------------------------------------------

(* The resize of an image: compressToWebP in the browser
   (src/utils/imageCompression.ts) and sharp's resize in compressAndSaveImage *)

\* compressToWebP = (file, maxWidth = 1024, quality = 0.8); its callers pass
\* the file only.
maxWidth == 1024

\* COMPRESSION_CONFIG.maxWidth and COMPRESSION_CONFIG.maxHeight
ConfigMaxWidth == 1920
ConfigMaxHeight == 1920

\* Widths and heights of source images: small, at and around each maximum,
\* and far over it.
Dims == {1, 2, 561, 1023, 1024, 1025, 1122, 1919, 1920, 1921, 2048, 4000}

Canvas(w, h, m) == [kind |-> "canvas", width |-> w, height |-> h, max |-> m]

\* a *= m / b on doubles followed by canvas.width = a (or canvas.height = a),
\* which keeps the integer part.  m / b and the product are each rounded to a
\* double: when a * m / b is a whole number the product may come out just
\* under it (561 * (1024 / 1122) is 511.99999999999994), and the integer part
\* is then one less.  Otherwise the rounding is too small to reach a whole
\* number.
ScaledDimension(a, m, b) ==
    LET e == (a * m) \div b IN
    IF (a * m) % b = 0 THEN {e - 1, e} ELSE {e}

\* A resize that looks at the width alone.
ResizeByWidthOnly(image) ==
    IF image.width > maxWidth
    THEN {Canvas(maxWidth, hh, maxWidth) :
              hh \in ScaledDimension(image.height, maxWidth, image.width)}
    ELSE {Canvas(image.width, image.height, maxWidth)}

\* The width and height compressToWebP gives the canvas it draws the image on.
compressToWebP(image) ==
    IF image.width > image.height
    THEN IF image.width > maxWidth
         THEN {Canvas(maxWidth, hh, maxWidth) :
                   hh \in ScaledDimension(image.height, maxWidth, image.width)}
         ELSE {Canvas(image.width, image.height, maxWidth)}
    ELSE IF image.height > maxWidth
         THEN {Canvas(ww, maxWidth, maxWidth) :
                   ww \in ScaledDimension(image.width, maxWidth, image.height)}
         ELSE {Canvas(image.width, image.height, maxWidth)}

\* Math.round of a / b for positive a and b, and at least one pixel.
RoundedDimension(a, b) ==
    LET n == (2 * a + b) \div (2 * b) IN IF n < 1 THEN 1 ELSE n

\* sharp(buffer).resize(maxWidth, maxHeight, { fit: 'inside',
\* withoutEnlargement: true }): the image is shrunk by the larger of the two
\* ratios, and by no ratio under 1.
sharpResize(image) ==
    IF image.width <= ConfigMaxWidth /\ image.height <= ConfigMaxHeight
    THEN Canvas(image.width, image.height, ConfigMaxWidth)
    ELSE IF image.width * ConfigMaxHeight >= image.height * ConfigMaxWidth
    THEN Canvas(ConfigMaxWidth,
                RoundedDimension(image.height * ConfigMaxWidth, image.width),
                ConfigMaxWidth)
    ELSE Canvas(RoundedDimension(image.width * ConfigMaxHeight, image.height),
                ConfigMaxHeight, ConfigMaxWidth)

InitResize ==
    /\ now = 0
    /\ pc = [r \in Reqs |-> "idle"]
    /\ files = [r \in Reqs |-> << >>]
    /\ body = [r \in Reqs |-> Red]
    /\ names = [r \in Reqs |-> << >>]
    /\ st = [r \in Reqs |-> << >>]
    /\ finished = [r \in Reqs |-> << >>]
    /\ treeId = [r \in Reqs |-> NoId]
    /\ dbErr = [r \in Reqs |-> FALSE]
    /\ imageFilenames = [r \in Reqs |-> << >>]
    /\ resp = [r \in Reqs |-> NoResponse]
    /\ blobs = EmptyMap
    /\ db = EmptyMap
    /\ owner = EmptyMap
    /\ lastGet = NoGet
    /\ limiter = EmptyMap
    /\ admitted = EmptyMap
    /\ \E w \in Dims, h \in Dims : img = [width |-> w, height |-> h, data |-> << >>]
    /\ result = NoResult

Server == <<now, pc, files, body, names, st, finished, treeId, dbErr,
            imageFilenames, resp, blobs, db, owner, lastGet, limiter, admitted>>

\* img.onload of compressToWebP, up to canvas.height = height.
CompressInBrowser ==
    /\ result = NoResult
    /\ result' \in compressToWebP(img)
    /\ UNCHANGED <<img, Server>>

\* The resize step of the sharp pipeline of compressAndSaveImage.
ResizeInTranscoder ==
    /\ result = NoResult
    /\ result' = sharpResize(img)
    /\ UNCHANGED <<img, Server>>

NextResize == CompressInBrowser \/ ResizeInTranscoder

SpecResize == InitResize /\ [][NextResize]_vars

-----------------------------------------------------------------------------

(* analyzeImage in the browser (src/unnamed/part_001): the palette proposed
   for an image *)

HexDigits == <<"0", "1", "2", "3", "4", "5", "6", "7", "8", "9",
               "a", "b", "c", "d", "e", "f">>

\* Number.prototype.toString(16)
RECURSIVE ToString16(_)
ToString16(n) ==
    IF n < 16 THEN <<HexDigits[n + 1]>>
    ELSE ToString16(n \div 16) \o <<HexDigits[(n % 16) + 1]>>

\* Number(text) for a text of decimal digits
RECURSIVE Number(_)
Number(text) ==
    IF text = << >> THEN 0
    ELSE 10 * Number(SubSeq(text, 1, Len(text) - 1))
            + (CHOOSE d \in 0..9 : DigitChar(d) = text[Len(text)])

\* String.prototype.split(',')
RECURSIVE Split(_)
Split(text) ==
    IF \A i \in 1..Len(text) : text[i] # ","
    THEN <<text>>
    ELSE LET k == CHOOSE i \in 1..Len(text) :
                      text[i] = "," /\ \A j \in 1..(i - 1) : text[j] # ","
         IN <<SubSeq(text, 1, k - 1)>> \o Split(SubSeq(text, k + 1, Len(text)))

\* Math.round(c / 32) * 32: a half rounds up.
Quantize(c) == ((2 * c + 32) \div 64) * 32

\* `${qR},${qG},${qB}`
ColorKey(p) ==
    NumToString(Quantize(p.r)) \o <<",">> \o NumToString(Quantize(p.g))
        \o <<",">> \o NumToString(Quantize(p.b))

\* `#${((1 << 24) + (r << 16) + (g << 8) + b).toString(16).slice(1)}` with
\* [r, g, b] = key.split(',').map(Number); the sum stays within 32 bits.
KeyToHex(key) ==
    LET c == [i \in 1..3 |-> Number(Split(key)[i])]
        n == 16777216 + c[1] * 65536 + c[2] * 256 + c[3]
    IN <<"#">> \o Tail(ToString16(n))

\* The pixels the loop looks at: i += 4 * 5 over the bytes, every fifth pixel.
Sampled(data) ==
    [k \in 1..((Len(data) + 4) \div 5) |-> data[5 * (k - 1) + 1]]

\* colorCounts after the loop, as its entries in the order the keys were
\* first met; pixels with a < 128 are skipped.
RECURSIVE CountColors(_, _)
CountColors(pixels, counts) ==
    IF pixels = << >> THEN counts
    ELSE LET p == Head(pixels)
             key == ColorKey(p)
             at == {i \in 1..Len(counts) : counts[i][1] = key}
         IN IF p.a < 128 THEN CountColors(Tail(pixels), counts)
            ELSE IF at = {}
            THEN CountColors(Tail(pixels), Append(counts, <<key, 1>>))
            ELSE CountColors(Tail(pixels),
                     [i \in 1..Len(counts) |->
                         IF i \in at THEN <<counts[i][1], counts[i][2] + 1>>
                         ELSE counts[i]])

\* entries.sort(([, a], [, b]) => b - a): by falling count, entries of equal
\* count in the order they had.
RECURSIVE SortByFrequency(_)
SortByFrequency(entries) ==
    IF entries = << >> THEN << >>
    ELSE LET k == CHOOSE i \in 1..Len(entries) :
                      /\ \A j \in 1..Len(entries) : entries[j][2] <= entries[i][2]
                      /\ \A j \in 1..(i - 1) : entries[j][2] < entries[i][2]
         IN <<entries[k]>>
                \o SortByFrequency(SubSeq(entries, 1, k - 1)
                                      \o SubSeq(entries, k + 1, Len(entries)))

\* while (sortedColors.length < 3) sortedColors.push('#ffffff')
RECURSIVE Fallback(_)
Fallback(colors) ==
    IF Len(colors) >= 3 THEN colors
    ELSE Fallback(Append(colors, <<"#", "f", "f", "f", "f", "f", "f">>))

\* The colors analyzeImage resolves with.
analyzeImage(data) ==
    LET sorted == SortByFrequency(CountColors(Sampled(data), << >>))
        hex == [i \in 1..Len(sorted) |-> KeyToHex(sorted[i][1])]
    IN Fallback(SubSeq(hex, 1, IF Len(hex) < 5 THEN Len(hex) ELSE 5))

Pixel(r, g, b, a) == [r |-> r, g |-> g, b |-> b, a |-> a]

\* Channel values at, just under and just over the points where the rounding
\* turns.
Channels == {0, 15, 16, 128, 239, 240, 255}

Pixels == {Pixel(r, g, b, a) : r \in Channels, g \in Channels, b \in Channels,
                               a \in {127, 128}}

Grey(v) == Pixel(v, v, v, 255)

\* Images of one pixel, and images of many: of seven colors, of two colors of
\* which the second is the more frequent, and of transparent pixels only.
Images ==
    {<<p>> : p \in Pixels}
    \cup {[i \in 1..31 |-> Grey(32 * ((i - 1) \div 5))],
          [i \in 1..26 |-> IF i = 1 THEN Grey(0) ELSE Pixel(255, 0, 0, 255)],
          [i \in 1..11 |-> IF i = 6 THEN Grey(255) ELSE Grey(16)],
          [i \in 1..6 |-> Pixel(255, 255, 255, 0)]}

InitAnalyze ==
    /\ now = 0
    /\ pc = [r \in Reqs |-> "idle"]
    /\ files = [r \in Reqs |-> << >>]
    /\ body = [r \in Reqs |-> Red]
    /\ names = [r \in Reqs |-> << >>]
    /\ st = [r \in Reqs |-> << >>]
    /\ finished = [r \in Reqs |-> << >>]
    /\ treeId = [r \in Reqs |-> NoId]
    /\ dbErr = [r \in Reqs |-> FALSE]
    /\ imageFilenames = [r \in Reqs |-> << >>]
    /\ resp = [r \in Reqs |-> NoResponse]
    /\ blobs = EmptyMap
    /\ db = EmptyMap
    /\ owner = EmptyMap
    /\ lastGet = NoGet
    /\ limiter = EmptyMap
    /\ admitted = EmptyMap
    /\ \E d \in Images : img = [width |-> Len(d), height |-> 1, data |-> d]
    /\ result = NoResult

\* img.onload of analyzeImage, from getImageData to resolve.
Analyze ==
    /\ result = NoResult
    /\ result' = [kind |-> "colors", colors |-> analyzeImage(img.data)]
    /\ UNCHANGED <<img, Server>>

NextAnalyze == Analyze

SpecAnalyze == InitAnalyze /\ [][NextAnalyze]_vars

-----------------------------------------------------------------------------

(* Vocabulary of the properties *)

Settled(r) == \A i \in DOMAIN st[r] : st[r][i] # "pending"

\* The upload request r and all of its per-file operations have finished.
Finished(r) == pc[r] = "done" /\ Settled(r)

\* The blobs in the store that request r wrote.
BlobsOf(r) == {n \in DOMAIN blobs : blobs[n][1] = r}

\* Request r created a Record.
HasRecord(r) == r \in Range(owner)

\* The blob names some Record lists.
Referenced(table) ==
    UNION {Range(JsonParseArray(table[id].images)) : id \in DOMAIN table}

Accepted(r) == resp[r].status = 200

-----------------------------------------------------------------------------
(* Properties *)

\* C1: if a file of an upload batch fails in transcoding or in its blob write,
\* then once the request and all its per-file operations have finished, no
\* blob written for the request remains and no Record was created for it.
C1_FailedBatchLeavesNothing ==
    \A r \in Reqs :
        (Finished(r) /\ \E i \in DOMAIN st[r] : st[r][i] = "rejected")
            => (BlobsOf(r) = {} /\ ~HasRecord(r))

\* C2: for every accepted upload of n files with a palette, a resolve of the
\* returned id yields the submitted palette and n image URLs, the i-th built
\* from the blob name produced for the i-th submitted file, whatever the order
\* in which the transcodes finished.
C2_ResolveYieldsUpload ==
    \A r \in Reqs : \A b \in Bases :
        Accepted(r) =>
            LET out == ResolveResponse(db, resp[r].id, b, FALSE) IN
            /\ out.status = 200
            /\ out.colors = body[r]
            /\ Len(out.imageUrls) = Len(files[r])
            /\ \A i \in 1..Len(files[r]) :
                  out.imageUrls[i] = b \o <<"/api/image/">> \o names[r][i]
            /\ (lastGet.status = 200 /\ lastGet.id = resp[r].id) => lastGet = out

C2_Witness ==
    \E r \in Reqs :
        /\ Accepted(r)
        /\ finished[r] = <<2, 1>>
        /\ names[r][1] # names[r][2]
        /\ body[r] = Gold
        /\ lastGet.status = 200 /\ lastGet.id = resp[r].id

\* C3: when the insert into the Metadata Store fails, at the moment the error
\* response is sent no blob of the request is in the Blob Store and the
\* request has no Record.
C3_InsertFailureRollsBack ==
    [][\A r \in Reqs :
          (pc[r] = "callback" /\ dbErr[r] /\ resp'[r] # resp[r])
              => /\ resp'[r].status = 500
                 /\ \A i \in DOMAIN names[r] : names[r][i] \notin DOMAIN blobs'
                 /\ \A n \in DOMAIN blobs' : blobs'[n][1] # r
                 /\ r \notin Range(owner')]_vars

C3_Witness ==
    \E r \in Reqs :
        /\ resp[r] = Response(500, "Database error", NoId)
        /\ Len(names[r]) = 2
        /\ names[r][1] # names[r][2]
        /\ BlobsOf(r) = {}

\* C4: an upload rejected by validation (MIME type, file size, palette, file
\* count) leaves the Records and the Blobs as they were.
C4_RejectedUploadChangesNothing ==
    [][\A r \in Reqs :
          (pc[r] = "idle" /\ resp'[r].status = 400)
              => (blobs' = blobs /\ db' = db)]_vars

C4_Witness ==
    /\ resp[1] = Response(200, "", Uuid(1))
    /\ resp[2] = Response(400, ErrorMessage("LIMIT_UNEXPECTED_FILE"), NoId)
    /\ DOMAIN blobs # {}

\* C5: a Record is inserted only when every blob name of its list exists in
\* the Blob Store.
C5_BlobsExistAtCommit ==
    [][\A r \in Reqs :
          (pc[r] = "inserting" /\ pc'[r] = "callback" /\ ~dbErr'[r])
              => \A i \in DOMAIN imageFilenames[r] :
                     imageFilenames[r][i] \in DOMAIN blobs]_vars

\* C6: whenever no upload is in progress, every blob in the Blob Store is
\* referenced by some Record.
C6_NoOrphanWhenQuiet ==
    (\A r \in Reqs : pc[r] = "idle" \/ Finished(r))
        => DOMAIN blobs \subseteq Referenced(db)

\* C7: a Record that a resolve has returned is what every later resolve of
\* its id returns, whatever uploads, failed uploads and rollbacks happened in
\* between; no step changes or removes a row.
C7_ResolveIsStable ==
    /\ [](lastGet.status = 200 =>
            \A b \in Bases : ResolveResponse(db, lastGet.id, b, FALSE) = lastGet)
    /\ [][\A id \in DOMAIN db : id \in DOMAIN db' /\ db'[id] = db[id]]_vars

C7_Witness ==
    \E r \in Reqs :
        /\ lastGet.status = 200
        /\ treeId[r] = lastGet.id
        /\ owner[lastGet.id] # r
        /\ resp[r] = Response(500, "Database error", NoId)

\* C8: a blob whose Record is committed is never overwritten and never deleted.
C8_CommittedBlobIsKept ==
    [][\A n \in DOMAIN blobs :
          n \in Referenced(db) => (n \in DOMAIN blobs' /\ blobs'[n] = blobs[n])]_vars

\* C9: any two blob writes, within one request or across requests, use
\* different generated names.
C9_NamesNeverReused ==
    \A r, q \in Reqs : \A i \in DOMAIN names[r] : \A j \in DOMAIN names[q] :
        (r # q \/ i # j) => names[r][i] # names[q][j]

\* The classes of names, stated on the characters of the name.
C10_HasTraversal(f) ==
    \E i \in 1..Len(f) :
        \/ f[i] = "/"
        \/ f[i] = "\\"
        \/ i < Len(f) /\ f[i] = "." /\ f[i + 1] = "."

C10_AllIn(f, lo, hi, S) == lo <= hi /\ \A j \in lo..hi : f[j] \in S

C10_LowerCase(c) ==
    CASE c = "W" -> "w" [] c = "E" -> "e" [] c = "B" -> "b" [] c = "P" -> "p"
      [] OTHER -> c

C10_HasShape(f) ==
    \E dash \in 1..Len(f) :
        /\ f[dash] = "-"
        /\ C10_AllIn(f, 1, dash - 1, Digit)
        /\ C10_AllIn(f, dash + 1, Len(f) - 5, AlnumI)
        /\ [j \in 1..5 |-> C10_LowerCase(f[Len(f) - 5 + j])]
              = <<".", "w", "e", "b", "p">>

\* C10: streamBlob answers 403 to a name containing '..', '/' or '\', else 400
\* to a name that is not digits, '-', alphanumerics, '.webp', else 404 to a
\* name with no stored blob, else 200 with the long-lived cache directive; it
\* decides the two rejections without looking for the file, and sets the cache
\* directive on success only.
C10_StreamBlobClasses ==
    lastGet.kind = "image" =>
        LET f == lastGet.filename IN
        /\ lastGet.status =
              IF C10_HasTraversal(f) THEN 403
              ELSE IF ~C10_HasShape(f) THEN 400
              ELSE IF f \notin DOMAIN blobs THEN 404
              ELSE 200
        /\ lastGet.status \in {400, 403} => ~lastGet.probed
        /\ lastGet.cacheControl # "" <=> lastGet.status = 200

\* A name refused for its shape although a file of that name is stored.
C10_Witness ==
    /\ lastGet.kind = "image"
    /\ lastGet.status = 400
    /\ lastGet.filename \in DOMAIN blobs

\* The 8-4-4-4-12 shape, stated on the characters of the id.
C11_Hex ==
    {"0", "1", "2", "3", "4", "5", "6", "7", "8", "9",
     "a", "b", "c", "d", "e", "f", "A", "B", "C", "D", "E", "F"}

C11_Shape(id) ==
    /\ Len(id) = 8 + 1 + 4 + 1 + 4 + 1 + 4 + 1 + 12
    /\ {i \in 1..Len(id) : id[i] = "-"} = {9, 14, 19, 24}
    /\ \A i \in 1..Len(id) : id[i] \in C11_Hex \cup {"-"}

\* C11: resolve answers 400 exactly to the ids that miss the 8-4-4-4-12
\* hexadecimal shape, and then without a query to the Metadata Store; to an
\* id of the shape it answers, when the query does not fail, 404 if no Record
\* has that id and otherwise the Record of that id.
C11_ResolveClasses ==
    lastGet.kind = "tree" =>
        LET id == lastGet.query IN
        /\ lastGet.status \in {200, 400, 404, 500}
        /\ lastGet.status = 400 <=> ~C11_Shape(id)
        /\ lastGet.status = 400 => ~lastGet.probed
        /\ lastGet.status = 404 => id \notin DOMAIN db
        /\ (C11_Shape(id) /\ id \notin DOMAIN db) => lastGet.status \in {404, 500}
        /\ (C11_Shape(id) /\ id \in DOMAIN db) => lastGet.status \in {200, 500}
        /\ lastGet.status = 200 =>
              \E c \in {Red, Gold}, fs \in SeqsUpTo(StoredNames, 2), t \in 0..MaxClock :
                  /\ db[id] = Row(id, fs, c, t)
                  /\ lastGet.id = id
                  /\ lastGet.colors = c
                  /\ Len(lastGet.imageUrls) = Len(fs)
                  /\ \A i \in 1..Len(fs) : \E b \in Bases :
                        lastGet.imageUrls[i] = b \o <<"/api/image/">> \o fs[i]
                  /\ lastGet.createdAt = t

\* The id of a Record followed by one more digit is refused unqueried.
C11_Witness ==
    /\ lastGet.kind = "tree"
    /\ lastGet.query = Uuid(1) \o <<"0">>
    /\ Uuid(1) \in DOMAIN db
    /\ lastGet.status = 400
    /\ ~lastGet.probed

\* C12: at every moment, also while the upload that creates it is still
\* running, a resolve of an id finds no Record or the whole Record (the id,
\* every blob name in order, the three palette fields, the creation time);
\* and once the success response of an upload is sent its Record is found.
C12_RecordWholeOrAbsent ==
    /\ \A id \in Ids : \A b \in Bases :
          LET out == ResolveResponse(db, id, b, FALSE) IN
          IF id \notin DOMAIN db THEN out.status = 404
          ELSE LET r == owner[id] IN
               /\ out.status = 200
               /\ out.id = id /\ id = treeId[r]
               /\ out.colors = body[r]
               /\ \A v \in {out.colors.primary, out.colors.accent, out.colors.light} :
                     v \notin {Undefined, ""}
               /\ Len(out.imageUrls) = Len(files[r]) /\ Len(files[r]) >= 1
               /\ \A i \in 1..Len(files[r]) :
                     out.imageUrls[i] = b \o <<"/api/image/">> \o names[r][i]
               /\ out.createdAt \in 0..MaxClock
    /\ (lastGet.kind = "tree" /\ lastGet.status = 200) =>
          /\ lastGet.id \in DOMAIN db
          /\ Len(lastGet.imageUrls) = Len(files[owner[lastGet.id]])
          /\ lastGet.colors = body[owner[lastGet.id]]
    /\ \A r \in Reqs :
          Accepted(r) => (resp[r].id \in DOMAIN db /\ owner[resp[r].id] = r)

\* A resolve served between the INSERT of an upload and its response.
C12_Witness ==
    \E r \in Reqs :
        /\ pc[r] = "callback" /\ ~dbErr[r]
        /\ resp[r] = NoResponse
        /\ Len(files[r]) = 2
        /\ treeId[r] \in DOMAIN db /\ owner[treeId[r]] = r
        /\ lastGet.status = 200 /\ lastGet.id = treeId[r]

RECURSIVE SumOver(_, _)
SumOver(bag, S) ==
    IF S = {} THEN 0
    ELSE LET t == CHOOSE x \in S : TRUE IN bag[t] + SumOver(bag, S \ {t})

\* The number of requests of a source that passed the limiter at a time t
\* with lo <= t < hi.
AdmittedBetween(key, lo, hi) ==
    IF key \notin DOMAIN admitted THEN 0
    ELSE SumOver(admitted[key], {t \in DOMAIN admitted[key] : lo <= t /\ t < hi})

\* A request rejected by the limiter started nothing and left nothing.
RejectedLeftNothing ==
    \A r \in Reqs :
        resp[r].status = 429 =>
            (pc[r] = "done" /\ names[r] = << >> /\ BlobsOf(r) = {} /\ ~HasRecord(r))

\* C13 as stated: at most 50 upload requests of one source pass the limiter
\* within any 15 minutes, whichever instant the 15 minutes start at, and a
\* request rejected with 429 creates no blob and no Record.
C13_QuotaInAnyWindow ==
    /\ \A key \in DOMAIN admitted : \A t \in DOMAIN admitted[key] :
          AdmittedBetween(key, t - windowMs + 1, t + 1) <= max
    /\ RejectedLeftNothing

\* C13, amended: within each window of the limiter (15 minutes counted from
\* the first request of the source that the window holds) at most 50 upload
\* requests of the source pass; every further request of the source in that
\* window is answered 429 and creates no blob and no Record.
C13_QuotaInLimiterWindow ==
    /\ [](\A key \in DOMAIN limiter :
             AdmittedBetween(key, limiter[key].resetTime - windowMs,
                             limiter[key].resetTime) <= max)
    /\ []RejectedLeftNothing
    /\ [][\A r \in Reqs, key \in Sources :
             (/\ pc[r] = "idle" /\ pc'[r] # "idle"
              /\ key \in DOMAIN limiter'
              /\ (key \notin DOMAIN limiter \/ limiter'[key] # limiter[key]))
             => LET full == /\ key \in DOMAIN limiter
                            /\ now' < limiter[key].resetTime
                            /\ AdmittedBetween(key,
                                   limiter[key].resetTime - windowMs,
                                   limiter[key].resetTime) >= max
                IN /\ resp'[r].status = 429 <=> full
                   /\ full => (blobs' = blobs /\ db' = db /\ admitted' = admitted)]_vars

\* The 50th request of the window is accepted and the 51st is rejected.
C13_Witness ==
    /\ Accepted(1)
    /\ resp[2].status = 429
    /\ limiter[Home].totalHits = max + 1
    /\ DOMAIN db # {}

\* C14: a resolve or streamBlob request is never answered by the limiter and
\* never counted by it: whatever the limiter holds, also past the limit, the
\* step that serves a retrieval leaves the store of the limiter and the
\* record of admitted uploads as they were and answers 200, 400, 403, 404 or
\* 500.
C14_RetrievalUnlimited ==
    [][lastGet' # lastGet =>
          /\ limiter' = limiter
          /\ admitted' = admitted
          /\ lastGet'.status \in {200, 400, 403, 404, 500}]_vars

\* A Record resolved and a blob address served after the source met the limit.
C14_Witness ==
    /\ Home \in DOMAIN limiter
    /\ limiter[Home].totalHits > max
    /\ \E r \in Reqs : resp[r].status = 429
    /\ lastGet.kind = "tree" /\ lastGet.status = 200

\* C15: every resolve and every streamBlob, whether it answers 200, 400, 403,
\* 404 or 500, leaves the rows of the table and the files of the uploads
\* directory, with their contents, as they were.
C15_RetrievalReadsOnly ==
    [][lastGet' # lastGet => (db' = db /\ blobs' = blobs)]_vars

\* A stored blob was served, over a table that holds a Record.
C15_Witness ==
    /\ lastGet.kind = "image"
    /\ lastGet.status = 200
    /\ lastGet.filename \in DOMAIN blobs
    /\ DOMAIN db # {}

\* The conditions of C16, stated on the request.
C16_Passes(batch, b) ==
    /\ Len(batch) >= 1 /\ Len(batch) <= 20
    /\ \A i \in 1..Len(batch) :
          /\ batch[i].mimetype \in {"image/jpeg", "image/png", "image/gif", "image/webp"}
          /\ batch[i].size <= 10 * 1024 * 1024
    /\ \A f \in {"primary", "accent", "light"} : b[f] # Undefined /\ b[f] # ""

C20_DocFileSize == 5 * 1024 * 1024

\* C20: the server accepts uploads of up to 20 images, and no file of more
\* than 5 MB ever results in a stored blob or in a Record.
C20_DocumentedLimits ==
    /\ \A r \in Reqs : Len(files[r]) <= 20
    /\ \A n \in DOMAIN blobs :
          files[blobs[n][1]][blobs[n][2]].size <= C20_DocFileSize
    /\ \A id \in DOMAIN db : \A i \in 1..Len(files[owner[id]]) :
          files[owner[id]][i].size <= C20_DocFileSize

\* C17: every Record holds an ordered list of 1 to 20 blob names and a
\* palette of exactly the fields primary, accent and light, each non-empty;
\* no step changes the list or the palette of a Record.
C17_RecordShape ==
    /\ [](\A id \in DOMAIN db :
             LET list == JsonParseArray(db[id].images)
                 palette == JsonParseColors(db[id].colors)
             IN /\ Len(list) >= 1 /\ Len(list) <= 20
                /\ \A i \in 1..Len(list) : list[i] # << >>
                /\ list = names[owner[id]]
                /\ DOMAIN palette = {"primary", "accent", "light"}
                /\ \A f \in DOMAIN palette : palette[f] # Undefined /\ palette[f] # "")
    /\ [][\A id \in DOMAIN db :
             /\ id \in DOMAIN db'
             /\ db'[id].images = db[id].images
             /\ db'[id].colors = db[id].colors]_vars

\* Two Records, of one and of two names, after both uploads were answered.
C17_Witness ==
    /\ \A r \in Reqs : Accepted(r)
    /\ \E id \in DOMAIN db : Len(JsonParseArray(db[id].images)) = 2
    /\ \E id \in DOMAIN db : JsonParseColors(db[id].colors) = Gold
    /\ Cardinality(DOMAIN db) = 2

\* C18: an INSERT whose id is the id of a Record fails and leaves the table
\* as it was; the request is then answered 500 with its blobs deleted and
\* the Record unchanged, and it does not insert again; so no two accepted
\* uploads have the same id.
C18_IdConflictFails ==
    /\ [][\A r \in Reqs :
             /\ (pc[r] = "inserting" /\ pc'[r] # "inserting" /\ treeId[r] \in DOMAIN db)
                   => (pc'[r] = "callback" /\ dbErr'[r] /\ db' = db /\ owner' = owner)
             /\ (pc[r] = "callback" /\ dbErr[r] /\ pc'[r] # "callback")
                   => /\ pc'[r] = "done"
                      /\ resp'[r].status = 500
                      /\ db' = db
                      /\ \A i \in 1..Len(imageFilenames[r]) :
                            imageFilenames[r][i] \notin DOMAIN blobs'
             /\ pc[r] = "done" => (pc'[r] = "done" /\ resp'[r] = resp[r])]_vars
    /\ [](\A r, q \in Reqs :
             (r # q /\ Accepted(r) /\ Accepted(q)) => resp[r].id # resp[q].id)

\* A request that drew the id of a Record of another request.
C18_Witness ==
    \E r, q \in Reqs :
        /\ r # q
        /\ treeId[r] = treeId[q]
        /\ Accepted(q) /\ owner[treeId[q]] = q
        /\ resp[r] = Response(500, "Database error", NoId)
        /\ Len(names[r]) = 2
        /\ \A i \in 1..2 : names[r][i] \notin DOMAIN blobs

\* The file whose failure rejected Promise.all: the first to be rejected.
C19_FirstRejected(r) ==
    LET j == CHOOSE j \in 1..Len(finished[r]) :
                 /\ st[r][finished[r][j]] = "rejected"
                 /\ \A k \in 1..(j - 1) : st[r][finished[r][k]] # "rejected"
    IN finished[r][j]

\* C19: an upload that passed validation and of which a file cannot be
\* decoded is answered with a status of the 400 class; a failure of a blob
\* write or of the insert is answered with a status of the 500 class.
C19_ErrorClasses ==
    \A r \in Reqs :
        /\ resp[r].error = "Failed to process images" =>
              IF ~files[r][C19_FirstRejected(r)].readable
              THEN resp[r].status \in 400..499
              ELSE resp[r].status \in 500..599
        /\ resp[r].error = "Database error" => resp[r].status \in 500..599

\* The place, in the order of settling, of the first rejection of request r.
C21_FirstRejection(r) ==
    CHOOSE j \in 1..Len(finished[r]) :
        /\ st[r][finished[r][j]] = "rejected"
        /\ \A k \in 1..(j - 1) : st[r][finished[r][k]] # "rejected"

\* C21: when a transcode of a request fails while other transcodes of the
\* request are still running, then from the moment the error response is sent
\* no blob of the request is in the Blob Store, and none is written later.
C21_RollbackBeforeError ==
    \A r \in Reqs :
        (/\ resp[r].error = "Failed to process images"
         /\ C21_FirstRejection(r) < Len(names[r]))
            => BlobsOf(r) = {}

\* C22: the INSERT of a request is issued only after every transcode of the
\* request has completed successfully, and at most once; every Record lists,
\* in order, one blob name for each file of its request.
C22_InsertOnceAfterAll ==
    /\ [][\A r \in Reqs :
             /\ pc'[r] = "inserting" =>
                   /\ \A i \in 1..Len(files'[r]) : st'[r][i] = "fulfilled"
                   /\ Len(st'[r]) = Len(files'[r])
             /\ (pc'[r] = "inserting" /\ pc[r] # "inserting") => pc[r] = "awaiting"
             /\ pc[r] \in {"callback", "done"} => pc'[r] \notin {"awaiting", "inserting"}
             /\ (HasRecord(r)' /\ ~HasRecord(r)) =>
                   (pc[r] = "inserting" /\ pc'[r] = "callback")
             /\ HasRecord(r) =>
                   /\ {id \in DOMAIN owner' : owner'[id] = r}
                         = {id \in DOMAIN owner : owner[id] = r}
                   /\ \A id \in DOMAIN owner : owner[id] = r => db'[id] = db[id]]_vars
    /\ [](\A id \in DOMAIN db :
             LET r == owner[id] IN
             /\ Len(JsonParseArray(db[id].images)) = Len(files[r])
             /\ JsonParseArray(db[id].images) = names[r]
             /\ \A i \in 1..Len(files[r]) : st[r][i] = "fulfilled")

\* The Record of a request of two files whose second file was transcoded
\* first, beside a request that failed and has no Record.
C22_Witness ==
    \E r, q \in Reqs :
        /\ HasRecord(r) /\ Len(files[r]) = 2 /\ finished[r] = <<2, 1>>
        /\ Len(JsonParseArray(db[treeId[r]].images)) = 2
        /\ resp[q].error = "Failed to process images" /\ ~HasRecord(q)

\* C23: every upload request that starts is answered in the end, with the id
\* or with an error; its response, once sent, is the only one; and after the
\* response the request writes no blob, deletes none and inserts nothing.
C23_OneOutcomeThenQuiet ==
    /\ \A r \in Reqs :
          (pc[r] # "idle") ~> (pc[r] = "done" /\ resp[r] # NoResponse)
    /\ [][\A r \in Reqs :
             resp[r] # NoResponse =>
                /\ resp'[r] = resp[r]
                /\ pc[r] = "done" /\ pc'[r] = "done"
                /\ \A i \in DOMAIN st[r] :
                      st[r][i] = "pending" => st'[r][i] # "fulfilled"
                /\ HasRecord(r)' <=> HasRecord(r)]_vars

\* C24: a request that fails validation (file count, MIME type, file size,
\* palette, no file) is answered 400 in the step in which it arrives, and
\* that step leaves the uploads directory and the table as they were; the
\* request starts no transcode, and at no later moment has it a blob or a
\* Record.
C24_ValidationTouchesNothing ==
    /\ [][\A r \in Reqs :
             (pc[r] = "idle" /\ resp'[r].status = 400)
                 => /\ blobs' = blobs /\ db' = db /\ owner' = owner
                    /\ names'[r] = << >> /\ st'[r] = << >>
                    /\ pc'[r] = "done"]_vars
    /\ [](\A r \in Reqs :
             resp[r].status = 400
                 => /\ pc[r] = "done"
                    /\ names[r] = << >> /\ st[r] = << >> /\ finished[r] = << >>
                    /\ treeId[r] = NoId
                    /\ BlobsOf(r) = {} /\ ~HasRecord(r))

\* A request refused for its palette, after multer took its files, while
\* another upload has written one of its two blobs.
C24_Witness ==
    /\ resp[2] = Response(400, ErrorMessage("NO_COLORS"), NoId)
    /\ pc[1] = "awaiting"
    /\ Cardinality(BlobsOf(1)) = 1
    /\ BlobsOf(2) = {}

\* C25: no blob of a request is in the Blob Store while a transcode of the
\* request is still running, and a transcode that failed has left no blob
\* for its file.
C25_StagesOrdered ==
    \A r \in Reqs :
        /\ BlobsOf(r) # {} => Settled(r)
        /\ \A i \in DOMAIN st[r] :
              st[r][i] = "rejected" =>
                  ~(names[r][i] \in DOMAIN blobs /\ blobs[names[r][i]] = <<r, i>>)

\* C26: the rollback over a list of names, of which some may have no file
\* and some may repeat, completes: it removes exactly the files whose names
\* are in the list, leaves the others with their contents, and the error
\* response is sent; deleting a name that has no file changes nothing, and a
\* second rollback over the same list changes nothing.
C26_RollbackIdempotent ==
    /\ [][(pc[1] = "callback" /\ dbErr[1] /\ pc'[1] # pc[1]) =>
             /\ DOMAIN blobs' = DOMAIN blobs \ Range(imageFilenames[1])
             /\ \A n \in DOMAIN blobs' : blobs'[n] = blobs[n]
             /\ resp'[1] = Response(500, "Database error", NoId)
             /\ pc'[1] = "done"]_vars
    /\ [](\A n \in RollbackNames :
             /\ n \notin DOMAIN blobs => Unlink(blobs, n) = blobs
             /\ Unlink(Unlink(blobs, n), n) = Unlink(blobs, n))
    /\ [](\A fs \in RollbackLists :
             Cleanup(Cleanup(blobs, fs), fs) = Cleanup(blobs, fs))

\* A rollback whose list names one file twice, so that the second deletion
\* met no file, and went on to the name after it.
C26_Witness ==
    /\ resp[1] = Response(500, "Database error", NoId)
    /\ imageFilenames[1] = <<uniqueName(7, <<"k">>), uniqueName(7, <<"k">>),
                             uniqueName(42, <<"k">>)>>
    /\ DOMAIN blobs = {uniqueName(7, << >>)}

\* C27: every blob name that a Record lists is served by streamBlob with
\* status 200, never refused with 400 or 403 and never missing with 404,
\* whatever timestamp and random suffix, the empty suffix included, the name
\* was made of.
C27_RecordedNamesAreServed ==
    \A id \in DOMAIN db :
        LET list == JsonParseArray(db[id].images) IN
        \A i \in 1..Len(list) : StreamBlobResponse(blobs, list[i]).status = 200

C28_Abs(x) == IF x < 0 THEN -x ELSE x

C28_Larger(x, y) == IF x > y THEN x ELSE y

\* C28: the resize gives a width and a height of which neither exceeds the
\* configured maximum and neither exceeds that of the source; a source with
\* both dimensions within the maximum keeps them; and the proportion of the
\* source is kept to within one pixel.
C28_ResizeWithinMax ==
    result.kind = "canvas" =>
        /\ result.width <= result.max /\ result.height <= result.max
        /\ result.width <= img.width /\ result.height <= img.height
        /\ (img.width <= result.max /\ img.height <= result.max)
              => (result.width = img.width /\ result.height = img.height)
        /\ C28_Abs(result.height * img.width - img.height * result.width)
              <= C28_Larger(img.width, img.height)

\* A source of 1122 by 561 came out of the browser's resize as 1024 by 511.
C28_Witness ==
    /\ img.width = 1122 /\ img.height = 561
    /\ result = Canvas(1024, 511, 1024)

C29_HexValue(ch) == CHOOSE v \in 0..15 : HexDigits[v + 1] = ch

\* The value of the k-th channel written in a color string of seven characters.
C29_Channel(s, k) == 16 * C29_HexValue(s[2 * k]) + C29_HexValue(s[2 * k + 1])

\* The multiple of 32 nearest to c, the upper one of two equally near.
C29_Nearest(c) ==
    CHOOSE m \in {32 * k : k \in 0..8} :
        \A n \in {32 * k : k \in 0..8} :
            \/ C28_Abs(c - m) < C28_Abs(c - n)
            \/ (C28_Abs(c - m) = C28_Abs(c - n) /\ m >= n)

\* C29: analyzeImage returns 3 to 5 colors, each '#' and six hexadecimal
\* digits; the color made of a sampled opaque pixel has three channels within
\* 0..255, each the pixel's channel rounded to the nearest multiple of 32, so
\* that white does not become a dark color; and it is among the colors
\* returned when the image has no more than five colors.
C29_PaletteOfImage ==
    result.kind = "colors" =>
        /\ Len(result.colors) \in 3..5
        /\ \A i \in 1..Len(result.colors) :
              /\ Len(result.colors[i]) = 7
              /\ result.colors[i][1] = "#"
              /\ \A j \in 2..7 : result.colors[i][j] \in Range(HexDigits)
        /\ \A k \in 1..Len(Sampled(img.data)) :
              LET p == Sampled(img.data)[k]
                  s == KeyToHex(ColorKey(p))
              IN p.a >= 128 =>
                    /\ Len(s) = 7
                    /\ \A j \in 1..3 : C29_Channel(s, j) \in 0..255
                    /\ C29_Channel(s, 1) = C29_Nearest(p.r)
                    /\ C29_Channel(s, 2) = C29_Nearest(p.g)
                    /\ C29_Channel(s, 3) = C29_Nearest(p.b)
                    /\ (p.r = 255 /\ p.g = 255 /\ p.b = 255) =>
                          \A j \in 1..3 : C29_Channel(s, j) >= 128
                    /\ Len(CountColors(Sampled(img.data), << >>)) <= 5
                          => \E i \in 1..Len(result.colors) : result.colors[i] = s

====
